---- MODULE Spec2Model ----
(***************************************************************************)
(* State-machine model of src/src/recent-chats.tsx: the snapshot / query / *)
(* cleanup pipeline run by Command's useEffect, the CSV fallback decoder   *)
(* of runSqliteQuery, and the identifier normaliser jidToWaDigits.         *)
(*                                                                         *)
(* JavaScript strings are sequences of tokens (<<>> is the empty string).  *)
(* JavaScript values are records [t, s, n]: t is the type tag, s the       *)
(* string payload, n the numeric payload.                                  *)
(***************************************************************************)
EXTENDS Integers, Sequences, FiniteSets, TLC

\* Number of overlapping pipeline runs (effect executions) explored.
MaxRuns == 2

Runs == 1..MaxRuns

----------------------------------------------------------------------------
\* JavaScript values

Str(s) == [t |-> "string", s |-> s, n |-> 0]
Num(k) == [t |-> "number", s |-> <<>>, n |-> k]
NaN == [t |-> "number", s |-> <<"NaN">>, n |-> 0]
Null == [t |-> "null", s |-> <<>>, n |-> 0]
Undefined == [t |-> "undefined", s |-> <<>>, n |-> 0]

\* JavaScript truthiness of a value
Truthy(v) ==
  CASE v.t = "string" -> v.s # <<>>
    [] v.t = "number" -> v.s = <<>> /\ v.n # 0
    [] OTHER -> FALSE

\* the JavaScript expression  a || b
Or(a, b) == IF Truthy(a) THEN a ELSE b

----------------------------------------------------------------------------
\* Paths

SrcDir == [root |-> "home", id |-> 0]
TmpDir(k) == [root |-> "tmp", id |-> k]

\* resolvePath(prefs.dbPath): the main database file
dbPath == [dir |-> SrcDir, name |-> <<"ChatStorage.sqlite">>]

\* path.join(dir, base)
Join(dir, base) == [dir |-> dir, name |-> base]
\* path.basename(p)
Basename(p) == p.name
\* path.dirname(p), as the path of the directory itself
Dirname(p) == [dir |-> p.dir, name |-> <<>>]
\* p + ext
Plus(p, ext) == [dir |-> p.dir, name |-> p.name \o <<ext>>]

NoPath == [dir |-> [root |-> "none", id |-> 0], name |-> <<>>]

----------------------------------------------------------------------------
\* Strings (token sequences)

Digits == {"0", "1", "2", "3", "4", "5", "6", "7", "8", "9"}
Newlines == {"\n", "\r\n"}
Whitespace == Newlines \cup {" "}

DigitVal(d) ==
  CASE d = "0" -> 0 [] d = "1" -> 1 [] d = "2" -> 2 [] d = "3" -> 3
    [] d = "4" -> 4 [] d = "5" -> 5 [] d = "6" -> 6 [] d = "7" -> 7
    [] d = "8" -> 8 [] OTHER -> 9

DigitTok(k) ==
  CASE k = 0 -> "0" [] k = 1 -> "1" [] k = 2 -> "2" [] k = 3 -> "3"
    [] k = 4 -> "4" [] k = 5 -> "5" [] k = 6 -> "6" [] k = 7 -> "7"
    [] k = 8 -> "8" [] OTHER -> "9"

\* s.trim() is the empty string
TrimIsEmpty(s) == \A i \in 1..Len(s) : s[i] \in Whitespace

\* s.split(sep): the pieces between separator tokens; "".split(sep) is [""]
RECURSIVE SplitFrom(_, _, _, _)
SplitFrom(s, seps, i, acc) ==
  IF i > Len(s) THEN acc
  ELSE SplitFrom(s, seps, i + 1,
                 IF s[i] \in seps THEN Append(acc, <<>>)
                 ELSE [acc EXCEPT ![Len(acc)] = Append(@, s[i])])

Split(s, seps) == SplitFrom(s, seps, 1, << <<>> >>)

\* lines.filter(Boolean): the non-empty strings
FilterBoolean(lines) == SelectSeq(lines, LAMBDA l : l # <<>>)

\* Number(s) of a string
Number(s) ==
  LET V[i \in 0..Len(s)] == IF i = 0 THEN 0 ELSE 10 * V[i - 1] + DigitVal(s[i])
  IN IF TrimIsEmpty(s) THEN Num(0)
     ELSE IF \A i \in 1..Len(s) : s[i] \in Digits THEN Num(V[Len(s)])
     ELSE NaN

RECURSIVE NatToString(_)
NatToString(k) ==
  IF k < 10 THEN <<DigitTok(k)>> ELSE Append(NatToString(k \div 10), DigitTok(k % 10))

\* String(v)
String(v) ==
  CASE v.t = "string" -> v
    [] v.t = "number" -> IF v.s # <<>> THEN Str(v.s) ELSE Str(NatToString(v.n))
    [] v.t = "null" -> Str(<<"null">>)
    [] OTHER -> Str(<<"undefined">>)

----------------------------------------------------------------------------
\* runSqliteQuery, CSV branch (the decoding of the tabular output)

\* obj[key] after  header.forEach((h, i) => (obj[h] = cols[i] ?? ""))
ObjGet(header, cols, key) ==
  LET idx == {i \in 1..Len(header) : header[i] = key}
  IN IF idx = {} THEN Undefined
     ELSE LET i == CHOOSE j \in idx : \A k \in idx : k <= j
          IN IF i <= Len(cols) THEN Str(cols[i]) ELSE Str(<<>>)

\* Faulty variant of OrNull: the value is kept as it is (as for jid)
OrNullKeep(v) == v
\* v || null
OrNull(v) == Or(v, Null)

\* v ? Number(v) : null
NumberOrNull(v) == IF Truthy(v) THEN Number(v.s) ELSE Null

\* the object built for one line
CsvRow(header, line) ==
  LET cols == Split(line, {","})
  IN [jid |-> ObjGet(header, cols, <<"jid">>),
      name |-> OrNull(ObjGet(header, cols, <<"name">>)),
      lastDate |-> NumberOrNull(ObjGet(header, cols, <<"lastDate">>)),
      preview |-> OrNull(ObjGet(header, cols, <<"preview">>))]

\* the rows returned for a standard output of the -header -csv invocation
DecodeCsv(stdout) ==
  IF TrimIsEmpty(stdout) THEN <<>>
  ELSE LET all == FilterBoolean(Split(stdout, Newlines))
           header == Split(Head(all), {","})
           lines == Tail(all)
       IN [i \in 1..Len(lines) |-> CsvRow(header, lines[i])]

\* results.map((r) => ({ jid: String(r.jid), ... })) in the effect
CoerceRows(results) ==
  [i \in 1..Len(results) |->
     [jid |-> String(results[i].jid), name |-> results[i].name,
      lastDate |-> results[i].lastDate, preview |-> results[i].preview]]

----------------------------------------------------------------------------
\* The external SQL engine and the database it reads (the environment)

\* The chat sessions stored in the database
IndividualChat ==
  [jid |-> Str(<<"4", "7", "7", "@", "s.whatsapp.net">>), name |-> Str(<<"Ann">>),
   lastDate |-> Num(7), preview |-> Str(<<"hi">>)]
GroupChat ==
  [jid |-> Str(<<"1", "-", "4", "@", "g.us">>), name |-> Null,
   lastDate |-> Null, preview |-> Null]

\* The rows the query selects: WHERE widens with includeGroups
QueryRows(includeGroups) ==
  IF includeGroups THEN <<IndividualChat, GroupChat>> ELSE <<IndividualChat>>

\* One value as sqlite3 -csv prints it (NULL is the empty cell)
CsvCell(v) == IF v.t = "null" THEN <<>> ELSE String(v).s

CsvLine(r) ==
  CsvCell(r.jid) \o <<",">> \o CsvCell(r.name) \o <<",">> \o CsvCell(r.lastDate)
    \o <<",">> \o CsvCell(r.preview) \o <<"\n">>

RECURSIVE CsvLines(_)
CsvLines(rs) == IF rs = <<>> THEN <<>> ELSE CsvLine(Head(rs)) \o CsvLines(Tail(rs))

CsvHeader == <<"jid", ",", "name", ",", "lastDate", ",", "preview", "\n">>

\* Ways an invocation of the engine can end.  "nonzero": execFile rejects.
\* "empty": no output.  "rows": the selected rows in the requested encoding.
\* "badjson": output that JSON.parse rejects.  "nonarray": valid JSON that is
\* not an array.  "garbage": non-empty text that is no header plus CSV lines.
JsonOutcomes == {"nonzero", "empty", "rows", "badjson", "nonarray"}
CsvOutcomes == {"nonzero", "empty", "rows", "garbage"}

\* Standard output of the -header -csv invocation
CsvStdout(outcome, includeGroups) ==
  CASE outcome = "rows" -> CsvHeader \o CsvLines(QueryRows(includeGroups))
    [] outcome = "garbage" -> <<"Usage", "\n", "x">>
    [] OTHER -> <<>>

----------------------------------------------------------------------------
\* State of the two pure functions when they are exercised on their own

VARIABLES
  csvHeader,   \* the cells of the header line the engine prints
  csvLines,    \* the cells of each following line
  csvEol,      \* the line terminator the engine writes
  stdout,      \* the text handed to the CSV decoder
  decoded,     \* the rows the effect builds from it
  csvPc,
  jid,         \* jidToWaDigits: the identifier
  defaultCountry, \* jidToWaDigits: the country hint ("none" is undefined)
  digits,      \* jidToWaDigits: the value returned
  normPc

csvVars == <<csvHeader, csvLines, csvEol, stdout, decoded, csvPc>>
normVars == <<jid, defaultCountry, digits, normPc>>
pureVars == <<csvVars, normVars>>

----------------------------------------------------------------------------
\* Command: the state of the component and of its effect executions

VARIABLES
  rows,        \* useState rows
  loading,     \* useState loading
  triggered,   \* number of effect executions started so far
  includeGroups, \* per run: prefs.includeGroups captured by the effect
  pc,          \* per run: the await the run is suspended at
  tempDbPath,  \* per run: the effect's local tempDbPath (NoPath is null)
  dir,         \* per run: makeReadableCopy's local dir (NoPath before mkdtemp)
  rmIdx,       \* per run: index of the removal cleanupTemp is awaiting
  results,     \* per run: what the run passed to setRows
  toasts,      \* per run: the failure toasts the run has shown
  log,         \* per run: file operations and engine invocations completed
  fsDirs,      \* temporary directories that exist
  fsFiles,     \* files that exist in temporary directories
  srcSide,     \* the side files ("-wal", "-shm") that exist beside the database
  setOrder     \* the runs that called setRows, in the order of their calls

pipelineVars == <<rows, loading, triggered, includeGroups, pc, tempDbPath, dir,
                  rmIdx, results, toasts, log, fsDirs, fsFiles, srcSide, setOrder>>

\* results[r] before the run has called setRows
NotSet == <<[jid |-> Str(<<"not-set">>), name |-> Null, lastDate |-> Null, preview |-> Null]>>

\* Names mkdtemp can return
TempDirs == {TmpDir(k) : k \in 1..MaxRuns}

\* Faulty variant of MkdtempChoices: a fixed directory name
MkdtempAny(existing) == {TmpDir(1)}
\* fs.mkdtemp creates a directory that did not exist.  Its random names are
\* interchangeable: of the names not in use the first is returned.
MkdtempChoices(existing) ==
  LET free == TempDirs \ existing IN {d \in free : \A e \in free : d.id <= e.id}

\* cleanupTemp: the removals, in order
CleanupTargets(copyMain) ==
  <<copyMain, Plus(copyMain, "-wal"), Plus(copyMain, "-shm"), Dirname(copyMain)>>

\* Faulty variant of NextRemoval: a failed removal ends cleanupTemp (as if
\* only the outer try / catch swallowed it)
NextRemovalAbort(i, ok) == IF ok THEN i + 1 ELSE 5
\* cleanupTemp: the removal awaited after removal i ended (ok or not):
\* each removal has its own .catch(() => {})
NextRemoval(i, ok) == i + 1

\* Faulty variant of FallsBack: every result but decoded rows falls through
FallsBackAlways(outcome) == outcome # "rows"
\* runSqliteQuery: the structured attempt falls through to the CSV attempt
\* when execFile rejects or JSON.parse throws
FallsBack(outcome) == outcome \in {"nonzero", "badjson"}

\* the toast of the catch block
Toast(msg) ==
  [style |-> "Failure", title |-> "Cannot read WhatsApp database",
   message |-> msg, hint |-> "grant Raycast Full Disk Access"]

\* Faulty variant of Catch: the error is swallowed silently
CatchNoToast(shown, msg) == shown
\* the toasts shown once the catch block ran with error msg
Catch(shown, msg) == Append(shown, Toast(msg))

\* finally: if (tempDbPath) await cleanupTemp(tempDbPath); setLoading(false)
Finally(r, temp) ==
  IF temp # NoPath
  THEN /\ pc' = [pc EXCEPT ![r] = "cleanup"]
       /\ rmIdx' = [rmIdx EXCEPT ![r] = 1]
       /\ UNCHANGED loading
  ELSE /\ pc' = [pc EXCEPT ![r] = "done"]
       /\ loading' = FALSE
       /\ UNCHANGED rmIdx

\* an exception reaches the catch block, then finally runs
Throw(r, msg, temp) ==
  /\ toasts' = [toasts EXCEPT ![r] = Catch(@, msg)]
  /\ Finally(r, temp)

\* Variant of SetState with a staleness check, which the effect does not have
SetStateIfLatest(r, cur, new) == IF r = triggered THEN new ELSE cur
\* The rows displayed after run r calls setRows(new) while cur is displayed:
\* the effect has no cleanup function and no staleness check
SetState(r, cur, new) == new

\* setRows(results.map(...)), then finally runs
SetRows(r, res) ==
  /\ rows' = SetState(r, rows, CoerceRows(res))
  /\ results' = [results EXCEPT ![r] = CoerceRows(res)]
  /\ setOrder' = Append(setOrder, r)
  /\ Finally(r, tempDbPath[r])

Logged(r, e) == log' = [log EXCEPT ![r] = Append(@, e)]

PipelineInit ==
  /\ rows = <<>>
  /\ loading = TRUE
  /\ triggered = 0
  /\ includeGroups = [r \in Runs |-> FALSE]
  /\ pc = [r \in Runs |-> "idle"]
  /\ tempDbPath = [r \in Runs |-> NoPath]
  /\ dir = [r \in Runs |-> NoPath]
  /\ rmIdx = [r \in Runs |-> 0]
  /\ results = [r \in Runs |-> NotSet]
  /\ toasts = [r \in Runs |-> <<>>]
  /\ log = [r \in Runs |-> <<>>]
  /\ fsDirs = {}
  /\ fsFiles = {}
  /\ srcSide \in SUBSET {"-wal", "-shm"}
  /\ setOrder = <<>>

\* useEffect fires (mount, or a change of dbPath / includeGroups): the async
\* function starts and suspends at  await fs.mkdtemp(...)
Trigger(r) ==
  /\ pc[r] = "idle"
  /\ r = triggered + 1
  /\ triggered' = r
  /\ \E g \in BOOLEAN :
       /\ r > 1 => g # includeGroups[r - 1]
       /\ includeGroups' = [includeGroups EXCEPT ![r] = g]
  /\ pc' = [pc EXCEPT ![r] = "mkdtemp"]
  /\ UNCHANGED <<rows, loading, tempDbPath, dir, rmIdx, results, toasts, log,
                 fsDirs, fsFiles, srcSide, setOrder>>
  /\ UNCHANGED pureVars

\* await fs.mkdtemp settles
MkdtempDone(r) ==
  /\ pc[r] = "mkdtemp"
  /\ \/ \E d \in MkdtempChoices(fsDirs) :
          /\ fsDirs' = fsDirs \cup {d}
          /\ dir' = [dir EXCEPT ![r] = Join(d, <<>>)]
          /\ pc' = [pc EXCEPT ![r] = "copyMain"]
          /\ Logged(r, [op |-> "mkdtemp", path |-> Join(d, <<>>), out |-> "ok"])
          /\ UNCHANGED <<loading, rmIdx, toasts>>
     \/ /\ Throw(r, "ENOSPC", tempDbPath[r])
        /\ Logged(r, [op |-> "mkdtemp", path |-> NoPath, out |-> "fail"])
        /\ UNCHANGED <<fsDirs, dir>>
  /\ UNCHANGED <<rows, triggered, includeGroups, tempDbPath, results, fsFiles, srcSide,
                 setOrder>>
  /\ UNCHANGED pureVars

\* await fs.copyFile(mainPath, copyMain) settles
CopyMainDone(r) ==
  /\ pc[r] = "copyMain"
  /\ LET copyMain == Join(dir[r].dir, Basename(dbPath)) IN
     \/ /\ fsFiles' = fsFiles \cup {copyMain}
        /\ pc' = [pc EXCEPT ![r] = "copyWal"]
        /\ Logged(r, [op |-> "copy", path |-> copyMain, out |-> "ok"])
        /\ UNCHANGED <<loading, rmIdx, toasts>>
     \/ /\ Throw(r, "EACCES", tempDbPath[r])
        /\ Logged(r, [op |-> "copy", path |-> copyMain, out |-> "fail"])
        /\ UNCHANGED fsFiles
  /\ UNCHANGED <<rows, triggered, includeGroups, tempDbPath, dir, results, fsDirs, srcSide,
                 setOrder>>
  /\ UNCHANGED pureVars

\* await fs.copyFile(mainPath + ext, copyMain + ext) settles: it copies the
\* side file when the database has one and rejects otherwise, which is ignored.
\* After the last one makeReadableCopy returns copyMain, the effect stores it
\* in tempDbPath and runSqliteQuery spawns the -json invocation.
CopySideDone(r) ==
  /\ pc[r] \in {"copyWal", "copyShm"}
  /\ LET copyMain == Join(dir[r].dir, Basename(dbPath))
         ext == IF pc[r] = "copyWal" THEN "-wal" ELSE "-shm"
         ok == ext \in srcSide
     IN   /\ fsFiles' = IF ok THEN fsFiles \cup {Plus(copyMain, ext)} ELSE fsFiles
          /\ Logged(r, [op |-> "copy", path |-> Plus(copyMain, ext),
                        out |-> IF ok THEN "ok" ELSE "fail"])
          /\ IF pc[r] = "copyWal"
             THEN /\ pc' = [pc EXCEPT ![r] = "copyShm"]
                  /\ UNCHANGED tempDbPath
             ELSE /\ pc' = [pc EXCEPT ![r] = "json"]
                  /\ tempDbPath' = [tempDbPath EXCEPT ![r] = copyMain]
  /\ UNCHANGED <<rows, loading, triggered, includeGroups, dir, rmIdx, results,
                 toasts, fsDirs, srcSide, setOrder>>
  /\ UNCHANGED pureVars

\* await execFileAsync(SQLITE_BIN, [dbPath, "-json", query]) settles.  Output
\* that JSON.parse accepts is represented by the value parsed from it.
JsonDone(r) ==
  /\ pc[r] = "json"
  /\ \E o \in JsonOutcomes :
       /\ Logged(r, [op |-> "json", path |-> tempDbPath[r], out |-> o])
       /\ IF FallsBack(o)
          THEN /\ pc' = [pc EXCEPT ![r] = "csv"]
               /\ UNCHANGED <<rows, results, toasts, loading, rmIdx, setOrder>>
          ELSE IF o = "nonarray"
          THEN /\ Throw(r, "results.map is not a function", tempDbPath[r])
               /\ UNCHANGED <<rows, results, setOrder>>
          ELSE /\ SetRows(r, IF o = "rows" THEN QueryRows(includeGroups[r]) ELSE <<>>)
               /\ UNCHANGED toasts
  /\ UNCHANGED <<triggered, includeGroups, tempDbPath, dir, fsDirs, fsFiles, srcSide>>
  /\ UNCHANGED pureVars

\* await execFileAsync(SQLITE_BIN, ["-header", "-csv", dbPath, query]) settles
CsvDone(r) ==
  /\ pc[r] = "csv"
  /\ \E o \in CsvOutcomes :
       /\ Logged(r, [op |-> "csv", path |-> tempDbPath[r], out |-> o])
       /\ IF o = "nonzero"
          THEN /\ Throw(r, "Command failed", tempDbPath[r])
               /\ UNCHANGED <<rows, results, setOrder>>
          ELSE /\ SetRows(r, DecodeCsv(CsvStdout(o, includeGroups[r])))
               /\ UNCHANGED toasts
  /\ UNCHANGED <<triggered, includeGroups, tempDbPath, dir, fsDirs, fsFiles, srcSide>>
  /\ UNCHANGED pureVars

\* cleanupTemp: the awaited fs.unlink / fs.rmdir settles; a rejection is
\* swallowed by its .catch.  fs.unlink rejects when the file does not exist,
\* fs.rmdir when the directory is not empty.  After the last removal the
\* effect calls setLoading(false).
RemovalDone(r) ==
  /\ pc[r] = "cleanup"
  /\ LET i == rmIdx[r]
         p == CleanupTargets(tempDbPath[r])[i]
         ok == IF i = 4
               THEN p.dir \in fsDirs /\ ~ \E f \in fsFiles : f.dir = p.dir
               ELSE p \in fsFiles
     IN   /\ fsFiles' = IF ok /\ i < 4 THEN fsFiles \ {p} ELSE fsFiles
          /\ fsDirs' = IF ok /\ i = 4 THEN fsDirs \ {p.dir} ELSE fsDirs
          /\ Logged(r, [op |-> IF i = 4 THEN "rmdir" ELSE "unlink", path |-> p,
                        out |-> IF ok THEN "ok" ELSE "fail"])
          /\ IF NextRemoval(i, ok) <= 4
             THEN /\ rmIdx' = [rmIdx EXCEPT ![r] = NextRemoval(i, ok)]
                  /\ UNCHANGED <<pc, loading>>
             ELSE /\ rmIdx' = [rmIdx EXCEPT ![r] = 5]
                  /\ pc' = [pc EXCEPT ![r] = "done"]
                  /\ loading' = FALSE
  /\ UNCHANGED <<rows, triggered, includeGroups, tempDbPath, dir, results, toasts,
                 srcSide, setOrder>>
  /\ UNCHANGED pureVars

Next ==
  \E r \in Runs :
    \/ Trigger(r)
    \/ MkdtempDone(r)
    \/ CopyMainDone(r)
    \/ CopySideDone(r)
    \/ JsonDone(r)
    \/ CsvDone(r)
    \/ RemovalDone(r)

----------------------------------------------------------------------------
\* The CSV decoder on its own: the header and lines the engine prints

\* Number of lines after the header
MaxCsvLines == 3

JidCell == <<"4", "7", "7", "@", "s.whatsapp.net">>

HeaderChoices ==
  { << <<"jid">>, <<"name">>, <<"lastDate">>, <<"preview">> >>,
    << <<"jid">>, <<"name">>, <<"preview">> >>,
    << <<"name">>, <<"lastDate">> >>,
    << <<"Usage">> >>,
    << <<>> >> }

LineChoices ==
  { << JidCell, <<"Ann">>, <<"7">>, <<"hi">> >>,
    << JidCell, <<"Ann">>, <<>>, <<"hi">> >>,
    << JidCell, <<>> >>,
    << <<>>, <<"Ann">>, <<"7">>, <<"hi">> >>,
    << <<>> >> }

LineSeqs == UNION {[1..n -> LineChoices] : n \in 0..MaxCsvLines}

\* cells joined by commas
RECURSIVE JoinCells(_)
JoinCells(cells) ==
  IF Len(cells) = 1 THEN cells[1]
  ELSE cells[1] \o <<",">> \o JoinCells(Tail(cells))

\* each line followed by the terminator
RECURSIVE JoinLines(_, _)
JoinLines(lines, eol) ==
  IF lines = <<>> THEN <<>>
  ELSE JoinCells(Head(lines)) \o <<eol>> \o JoinLines(Tail(lines), eol)

CsvIdle ==
  /\ csvHeader = <<>>
  /\ csvLines = <<>>
  /\ csvEol = "\n"
  /\ stdout = <<>>
  /\ decoded = <<>>
  /\ csvPc = "idle"

CsvInit ==
  /\ csvHeader \in HeaderChoices
  /\ csvLines \in LineSeqs
  /\ csvEol \in Newlines
  /\ stdout = JoinLines(<<csvHeader>> \o csvLines, csvEol)
  /\ decoded = <<>>
  /\ csvPc = "ready"

\* runSqliteQuery's CSV branch returns and the effect maps the result
Decode ==
  /\ csvPc = "ready"
  /\ decoded' = CoerceRows(DecodeCsv(stdout))
  /\ csvPc' = "done"
  /\ UNCHANGED <<csvHeader, csvLines, csvEol, stdout>>

----------------------------------------------------------------------------
\* jidToWaDigits on its own

\* Longest local part explored
MaxLocalLen == 4

SUFFIX == <<"@", "s.whatsapp.net">>
GROUP == <<"@", "g.us">>

\* Faulty variant of EndsWith: s.includes(suffix)
Includes(s, suffix) ==
  \E i \in 1..Len(s) : i + Len(suffix) - 1 <= Len(s)
                       /\ SubSeq(s, i, i + Len(suffix) - 1) = suffix
\* s.endsWith(suffix)
EndsWith(s, suffix) ==
  /\ Len(s) >= Len(suffix)
  /\ SubSeq(s, Len(s) - Len(suffix) + 1, Len(s)) = suffix

\* s.replace(pattern, replacement) with a string pattern: the first occurrence
ReplaceFirst(s, pattern, replacement) ==
  LET at == {i \in 1..Len(s) : i + Len(pattern) - 1 <= Len(s)
                               /\ SubSeq(s, i, i + Len(pattern) - 1) = pattern}
  IN IF at = {} THEN s
     ELSE LET i == CHOOSE j \in at : \A k \in at : j <= k
          IN SubSeq(s, 1, i - 1) \o replacement \o SubSeq(s, i + Len(pattern), Len(s))

\* s.replace(/\D/g, "")
StripNonDigits(s) == SelectSeq(s, LAMBDA t : t \in Digits)

\* libphonenumber-js, reduced to a numbering plan of two countries whose
\* number lengths follow MaxLocalLen: "US" has calling code 1 and national
\* numbers of MaxLocalLen - 1 digits, "NO" has calling code 47 and national
\* numbers of MaxLocalLen - 3 digits; national numbers start with 2..9.
Countries == {"US", "NO"}
CallingCode(c) == IF c = "US" THEN <<"1">> ELSE <<"4", "7">>
NationalLen(c) == IF c = "US" THEN MaxLocalLen - 1 ELSE MaxLocalLen - 3
IsValidNational(c, n) ==
  /\ Len(n) = NationalLen(c)
  /\ Len(n) > 0
  /\ n[1] \in Digits \ {"0", "1"}

NoParse == [ok |-> FALSE, country |-> "none", national |-> <<>>, number |-> <<>>]
Parsed(c, n) ==
  [ok |-> TRUE, country |-> c, national |-> n, number |-> <<"+">> \o CallingCode(c) \o n]

IsPrefix(a, b) == Len(a) <= Len(b) /\ SubSeq(b, 1, Len(a)) = a

\* parsePhoneNumberFromString(text, { defaultCountry })
parsePhoneNumberFromString(text, country) ==
  LET plus == text # <<>> /\ Head(text) = "+"
      body == IF plus THEN Tail(text) ELSE text
      ds == StripNonDigits(body)
      viable == /\ \A i \in 1..Len(body) : body[i] \in Digits \cup {"-"}
                /\ Len(ds) >= 2
  IN IF ~viable THEN NoParse
     ELSE IF plus
     THEN IF \E c \in Countries : IsPrefix(CallingCode(c), ds)
          THEN LET c == CHOOSE c \in Countries : IsPrefix(CallingCode(c), ds)
               IN Parsed(c, SubSeq(ds, Len(CallingCode(c)) + 1, Len(ds)))
          ELSE NoParse
     ELSE IF country \in Countries
     THEN LET cc == CallingCode(country)
              rest == SubSeq(ds, Len(cc) + 1, Len(ds))
          IN IF IsPrefix(cc, ds) /\ ~IsValidNational(country, ds)
                /\ IsValidNational(country, rest)
             THEN Parsed(country, rest)
             ELSE Parsed(country, ds)
     ELSE NoParse

\* parsed?.isValid()
IsValid(parsed) == parsed.ok /\ IsValidNational(parsed.country, parsed.national)

\* Line 32 passes raw unchanged in both branches of its conditional: no "+"
\* is put before a local part that lacks one.
jidToWaDigits(j, country) ==
  IF ~EndsWith(j, SUFFIX) THEN Null
  ELSE LET raw == ReplaceFirst(j, SUFFIX, <<>>)
           parsed == parsePhoneNumberFromString(raw, country)
       IN IF IsValid(parsed) THEN Str(ReplaceFirst(parsed.number, <<"+">>, <<>>))
          ELSE LET d == StripNonDigits(raw)
               IN IF d # <<>> THEN Str(d) ELSE Null

LocalTokens == {"1", "4", "7", "+", "-"}
LocalParts == UNION {[1..n -> LocalTokens] : n \in 0..MaxLocalLen}
DomainParts == {<<>>, SUFFIX, GROUP, SUFFIX \o GROUP, GROUP \o SUFFIX, SUFFIX \o SUFFIX}
DefaultCountries == {"none", "US", "NO", "XX"}

NormIdle ==
  /\ jid = <<>>
  /\ defaultCountry = "none"
  /\ digits = Null
  /\ normPc = "idle"

NormInit ==
  /\ jid \in {l \o d : l \in LocalParts, d \in DomainParts}
  /\ defaultCountry \in DefaultCountries
  /\ digits = Null
  /\ normPc = "ready"

\* the list renders a row: jidToWaDigits(r.jid, prefs.defaultCountry)
Normalize ==
  /\ normPc = "ready"
  /\ digits' = jidToWaDigits(jid, defaultCountry)
  /\ normPc' = "done"
  /\ UNCHANGED <<jid, defaultCountry>>

----------------------------------------------------------------------------
\* Specifications

vars == <<pipelineVars, csvVars, normVars>>

Init == PipelineInit /\ CsvIdle /\ NormIdle

Spec == Init /\ [][Next]_vars

InitCsv == PipelineInit /\ srcSide = {} /\ CsvInit /\ NormIdle

NextCsv == Decode /\ UNCHANGED <<pipelineVars, normVars>>

SpecCsv == InitCsv /\ [][NextCsv]_vars

InitNorm == PipelineInit /\ srcSide = {} /\ CsvIdle /\ NormInit

NextNorm == Normalize /\ UNCHANGED <<pipelineVars, csvVars>>

SpecNorm == InitNorm /\ [][NextNorm]_vars

----------------------------------------------------------------------------
\* What a run did, read off its log

Ops(r, ops) == SelectSeq(log[r], LAMBDA e : e.op \in ops)
Exec(r) == Ops(r, {"json", "csv"})
Removals(r) == Ops(r, {"unlink", "rmdir"})
Has(r, op, out) == \E i \in 1..Len(log[r]) : log[r][i].op = op /\ log[r][i].out = out

SnapshotFile(r, ext) == [dir |-> dir[r].dir, name |-> <<"ChatStorage.sqlite">> \o ext]
OriginalFiles ==
  {[dir |-> SrcDir, name |-> <<"ChatStorage.sqlite">> \o ext] :
     ext \in {<<>>, <<"-wal">>, <<"-shm">>}}

MainCopied(r) ==
  \E i \in 1..Len(log[r]) :
    log[r][i] = [op |-> "copy", path |-> SnapshotFile(r, <<>>), out |-> "ok"]
MainCopyFailed(r) ==
  \E i \in 1..Len(log[r]) :
    log[r][i] = [op |-> "copy", path |-> SnapshotFile(r, <<>>), out |-> "fail"]
SnapshotSucceeded(r) == MainCopied(r) /\ pc[r] \notin {"copyWal", "copyShm"}
SnapshotFailed(r) == Has(r, "mkdtemp", "fail") \/ MainCopyFailed(r)
QueryFailed(r) == Has(r, "csv", "nonzero")
Finished(r) == pc[r] = "done"
AllFinished == \A r \in Runs : Finished(r)

\* C1: a finished run whose snapshot step succeeded ran the query phase and
\* then attempted, in this order and as its last four operations, the removal
\* of the snapshot main file, its -wal file, its -shm file and the temporary
\* directory, whatever the outcome of the earlier removals.
C1_CleanupAfterQuery ==
  \A r \in Runs :
    Finished(r) /\ SnapshotSucceeded(r) =>
      LET rm == Removals(r)
          n == Len(log[r])
      IN /\ Exec(r) # <<>>
         /\ Len(rm) = 4
         /\ n >= 4 /\ SubSeq(log[r], n - 3, n) = rm
         /\ rm[1].op = "unlink" /\ rm[1].path = SnapshotFile(r, <<>>)
         /\ rm[2].op = "unlink" /\ rm[2].path = SnapshotFile(r, <<"-wal">>)
         /\ rm[3].op = "unlink" /\ rm[3].path = SnapshotFile(r, <<"-shm">>)
         /\ rm[4].op = "rmdir" /\ rm[4].path = [dir |-> dir[r].dir, name |-> <<>>]

\* A run whose query failed in both encodings, whose -wal removal failed and
\* whose later removals were still made (and succeeded).
C1_Witness ==
  \E r \in Runs :
    /\ Finished(r) /\ SnapshotSucceeded(r) /\ QueryFailed(r)
    /\ Len(Removals(r)) = 4
    /\ Removals(r)[2].out = "fail"
    /\ Removals(r)[3].out = "ok"
    /\ Removals(r)[4].out = "ok"

\* C2: the -json invocation is the first invocation of a run; the -csv
\* invocation is made only after the -json one exited non-zero or printed
\* non-empty text that failed to parse; a -csv invocation that exits non-zero
\* ends the query with an error (one toast, setRows never called); a run makes
\* at most these two invocations.
C2_TwoAttemptsInOrder ==
  \A r \in Runs :
    LET ex == Exec(r) IN
    /\ Len(ex) <= 2
    /\ pc[r] = "json" => ex = <<>>
    /\ Len(ex) >= 1 => ex[1].op = "json"
    /\ (pc[r] = "csv" \/ Len(ex) = 2) =>
         /\ Len(ex) >= 1
         /\ ex[1].out \in {"nonzero", "badjson"}
    /\ Len(ex) = 2 => ex[2].op = "csv"
    /\ (Len(ex) = 2 /\ ex[2].out = "nonzero") =>
         /\ Len(toasts[r]) = 1
         /\ toasts[r][1].message = "Command failed"
         /\ results[r] = NotSet

\* A finished run that made both invocations, the second exiting non-zero.
C2_Witness ==
  \E r \in Runs :
    /\ Finished(r)
    /\ Len(Exec(r)) = 2
    /\ Exec(r)[1].out = "badjson"
    /\ Exec(r)[2].out = "nonzero"

\* C3: a run that failed in the snapshot phase (mkdtemp or the copy of the
\* main file) or in the query phase (both invocations failed) has shown
\* exactly one failure toast, carrying the error's message and the
\* permissions hint, from the step on in which the failure happened; a run
\* in which nothing failed has shown none.
C3_OneToastPerFailure ==
  \A r \in Runs :
    /\ (SnapshotFailed(r) \/ QueryFailed(r)) =>
         /\ Len(toasts[r]) = 1
         /\ toasts[r][1].style = "Failure"
         /\ toasts[r][1].hint = "grant Raycast Full Disk Access"
         /\ toasts[r][1].message =
              (IF Has(r, "mkdtemp", "fail") THEN "ENOSPC"
               ELSE IF MainCopyFailed(r) THEN "EACCES" ELSE "Command failed")
         /\ pc[r] \in {"cleanup", "done"}
    /\ (~SnapshotFailed(r) /\ ~QueryFailed(r) /\ ~Has(r, "json", "nonarray")) =>
         toasts[r] = <<>>

\* One run failed in the snapshot phase, one in the query phase, both finished.
C3_Witness ==
  \E r, q \in Runs :
    /\ Finished(r) /\ MainCopyFailed(r) /\ Len(toasts[r]) = 1
    /\ Finished(q) /\ QueryFailed(q) /\ Len(toasts[q]) = 1

\* C4: a finished run whose copy of the main file failed, and none of whose
\* removals failed, has left no temporary directory of its own behind.
C4_NoDirectoryLeftAfterCopyFailure ==
  \A r \in Runs :
    (Finished(r) /\ MainCopyFailed(r) /\ ~Has(r, "unlink", "fail")
       /\ ~Has(r, "rmdir", "fail"))
      => dir[r].dir \notin fsDirs

\* C5: every file a run copied to, passed to the engine or removed lies in the
\* temporary directory the run created and is none of the original files, and
\* no two runs hold the same temporary directory at the same time.
Holding(r) == pc[r] \in {"copyMain", "copyWal", "copyShm", "json", "csv", "cleanup"}
C5_OwnDirectoryOnly ==
  /\ \A r \in Runs : \A i \in 1..Len(log[r]) :
       log[r][i].op \in {"copy", "json", "csv", "unlink", "rmdir"} =>
         /\ log[r][i].path.dir = dir[r].dir
         /\ log[r][i].path.dir.root = "tmp"
         /\ log[r][i].path \notin OriginalFiles
         /\ Has(r, "mkdtemp", "ok")
  /\ \A r, q \in Runs :
       (r # q /\ Holding(r) /\ Holding(q)) => dir[r].dir # dir[q].dir

\* Two runs in their cleanup at the same time, each having queried its own copy.
C5_Witness ==
  \E r, q \in Runs :
    /\ r # q
    /\ pc[r] = "cleanup" /\ pc[q] = "cleanup"
    /\ Exec(r) # <<>> /\ Exec(q) # <<>>
    /\ Removals(r) # <<>> /\ Removals(q) # <<>>

\* C6: a finished run whose invocations all exited zero with output in neither
\* expected shape (valid JSON that is no array; or text that is not JSON
\* followed by text that is no header plus CSV lines) displayed zero rows and
\* showed no toast.
C6_UndecodableOutputIsZeroRows ==
  \A r \in Runs :
    (Finished(r) /\ (\/ (Len(Exec(r)) = 1 /\ Exec(r)[1].out = "nonarray")
                     \/ (Len(Exec(r)) = 2 /\ Exec(r)[1].out = "badjson"
                           /\ Exec(r)[2].out = "garbage")))
      => results[r] = <<>> /\ toasts[r] = <<>>

\* C10 as claimed: once all runs have finished, the rows displayed are those of
\* the most recently triggered run (when that run produced rows at all).
C10_LatestTriggeredWins ==
  (AllFinished /\ results[MaxRuns] # NotSet) => rows = results[MaxRuns]

\* C10 as amended: runs are neither cancelled nor checked for staleness, so the
\* rows displayed are always those of the run that called setRows last (the
\* initial empty list before any call), whichever run was triggered last.
C10_LastSetRowsWins ==
  rows = IF setOrder = <<>> THEN <<>> ELSE results[setOrder[Len(setOrder)]]

\* All runs finished; an earlier-triggered run called setRows after a later
\* one and its different rows are displayed.
C10_Witness ==
  /\ AllFinished
  /\ Len(setOrder) >= 2
  /\ setOrder[Len(setOrder)] < setOrder[Len(setOrder) - 1]
  /\ results[setOrder[Len(setOrder)]] # results[setOrder[Len(setOrder) - 1]]
  /\ rows = results[setOrder[Len(setOrder)]]

----------------------------------------------------------------------------
\* The CSV decoder (SpecCsv)

\* The non-empty lines of the output, as cells: the first is the header
PrintedLines == SelectSeq(<<csvHeader>> \o csvLines, LAMBDA l : l # << <<>> >>)

\* Field f has no column in header h, no cell in line c, or an empty cell
ColumnMissing(h, f) == \A j \in 1..Len(h) : h[j] # <<f>>
FieldAbsent(h, c, f) ==
  \/ ColumnMissing(h, f)
  \/ LET j == CHOOSE k \in 1..Len(h) : h[k] = <<f>> /\ \A m \in k + 1..Len(h) : h[m] # <<f>>
     IN j > Len(c) \/ c[j] = <<>>

----------------------------------------------------------------------------
\* jidToWaDigits (SpecNorm)

\* The local part is an international number with its country code: the
\* calling code of a country followed by a valid national number of it
International(local) ==
  \E c \in Countries :
    /\ IsPrefix(CallingCode(c), local)
    /\ IsValidNational(c, SubSeq(local, Len(CallingCode(c)) + 1, Len(local)))

\* C8: for an identifier made of an international number with its country code
\* and the individual-contact suffix, the digits returned are that number,
\* whatever the country hint.
C8_HintIndependent ==
  \A local \in LocalParts :
    (normPc = "done" /\ jid = local \o SUFFIX /\ International(local))
      => digits = Str(local)

\* C9: an identifier that does not end in "@s.whatsapp.net" normalises to
\* null, whatever the country hint.
C9_OtherSuffixIsNull ==
  (normPc = "done"
     /\ (Len(jid) < 2 \/ jid[Len(jid)] # "s.whatsapp.net" \/ jid[Len(jid) - 1] # "@"))
    => digits = Null

\* A group key that contains digits, and even the individual suffix before
\* its own, normalised with a country hint.
C9_Witness ==
  /\ normPc = "done"
  /\ jid = <<"1", "4", "-", "7">> \o SUFFIX \o GROUP
  /\ defaultCountry = "US"
  /\ digits = Null

====
